---- MODULE Spec2Model ----
(***************************************************************************)
(* scripts/tag_districts.py: rule-based district tagging of flower store   *)
(* rows.  Python strings are sequences of characters.  TLA+ string         *)
(* literals are ASCII, so every CJK character is written as its pinyin,    *)
(* followed by its code point where two characters of the tables share a   *)
(* pinyin ("zhong4E2D" is U+4E2D); the original text is in the comment     *)
(* beside each literal.  ASCII characters stand for themselves.            *)
(***************************************************************************)
EXTENDS Integers, Sequences, FiniteSets, TLC

VARIABLES pc, arg, ret, fs, reader, tagged_rows, counts, stdout

vars == <<pc, arg, ret, fs, reader, tagged_rows, counts, stdout>>
mainvars == <<fs, reader, tagged_rows, counts, stdout>>

(***************************************************************************)
(* Bounds of the checked inputs.                                           *)
(***************************************************************************)
\* a URL given to extract_coords alone is at most this many URL_PARTS
MaxUrlParts == 5
\* the three text columns of a row given to normalize_row alone are put
\* together from at most this many ROW_PARTS
MaxRowParts == 3
\* a source file given to main holds at most this many rows
MaxRows == 3

(***************************************************************************)
(* str helpers                                                             *)
(***************************************************************************)
\* Python `needle in text` on str: substring test (the empty str is in any str)
Occurs(needle, text) ==
    \E i \in 1..(Len(text) - Len(needle) + 1) :
        SubSeq(text, i, i + Len(needle) - 1) = needle

WHITESPACE == {" ", "\t", "\n", "\r"}

RECURSIVE lstrip(_)
lstrip(s) == IF s # <<>> /\ Head(s) \in WHITESPACE THEN lstrip(Tail(s)) ELSE s

RECURSIVE rstrip(_)
rstrip(s) ==
    IF s # <<>> /\ s[Len(s)] \in WHITESPACE THEN rstrip(SubSeq(s, 1, Len(s) - 1)) ELSE s

\* str.strip()
strip(s) == rstrip(lstrip(s))

\* the concatenation of a sequence of strs
RECURSIVE Join(_)
Join(ps) == IF ps = <<>> THEN <<>> ELSE Head(ps) \o Join(Tail(ps))

\* all sequences over S of length at most n
SeqsUpTo(S, n) == UNION {[1..k -> S] : k \in 0..n}

(***************************************************************************)
(* District labels                                                         *)
(***************************************************************************)
\* 新北市板橋區
BANQIAO == <<"xin65B0", "bei", "shi5E02", "ban", "qiao", "qu">>
\* 新北市中和區
ZHONGHE == <<"xin65B0", "bei", "shi5E02", "zhong4E2D", "he", "qu">>
\* 新北市永和區
YONGHE == <<"xin65B0", "bei", "shi5E02", "yong", "he", "qu">>
\* 新北市土城區
TUCHENG == <<"xin65B0", "bei", "shi5E02", "tu", "cheng", "qu">>
\* 新北市新莊區
XINZHUANG == <<"xin65B0", "bei", "shi5E02", "xin65B0", "zhuang", "qu">>
\* 台北市松山區
SONGSHAN == <<"tai", "bei", "shi5E02", "song", "shan", "qu">>
\* 台北市中山區
ZHONGSHAN == <<"tai", "bei", "shi5E02", "zhong4E2D", "shan", "qu">>
\* 台北市文山區
WENSHAN == <<"tai", "bei", "shi5E02", "wen", "shan", "qu">>
\* the label infer_district returns when no stage decides: 待確認
UNRESOLVED == <<"dai", "que", "ren">>

(***************************************************************************)
(* Rule tables, in definition order (a dict iterates in insertion order)   *)
(***************************************************************************)
DISTRICT_KEYWORDS ==
    <<
       [key |-> <<"ban", "qiao">>, district |-> BANQIAO],   \* 板橋
       [key |-> <<"zhong4E2D", "he">>, district |-> ZHONGHE],   \* 中和
       [key |-> <<"yong", "he">>, district |-> YONGHE]    \* 永和
    >>
ROAD_TO_DISTRICT ==
    <<
       [key |-> <<"xin65B0", "hai", "lu">>, district |-> BANQIAO],   \* 新海路
       [key |-> <<"zhong4E2D", "zheng", "lu">>, district |-> BANQIAO],   \* 中正路
       [key |-> <<"ying", "shi58EB", "lu">>, district |-> BANQIAO],   \* 英士路
       [key |-> <<"min", "sheng", "lu", "er", "duan">>, district |-> BANQIAO],   \* 民生路二段
       [key |-> <<"min", "sheng", "lu", "yi4E00", "duan">>, district |-> BANQIAO],   \* 民生路一段
       [key |-> <<"min", "sheng", "lu">>, district |-> BANQIAO],   \* 民生路
       [key |-> <<"wen", "hua5316", "lu", "yi4E00", "duan">>, district |-> BANQIAO],   \* 文化路一段
       [key |-> <<"wen", "hua5316", "lu", "er", "duan">>, district |-> BANQIAO],   \* 文化路二段
       [key |-> <<"ban", "qiao", "hua82B1", "shi5E02">>, district |-> BANQIAO],   \* 板橋花市
       [key |-> <<"zhong4E2D", "shan", "lu", "yi4E00", "duan">>, district |-> BANQIAO],   \* 中山路一段
       [key |-> <<"zhong4E2D", "shan", "lu", "er", "duan">>, district |-> BANQIAO],   \* 中山路二段
       [key |-> <<"nan", "ya", "nan", "lu">>, district |-> BANQIAO],   \* 南雅南路
       [key |-> <<"ban", "xin65B0", "lu">>, district |-> BANQIAO],   \* 板新路
       [key |-> <<"han", "sheng", "dong", "lu">>, district |-> BANQIAO],   \* 漢生東路
       [key |-> <<"xian", "min", "da", "dao">>, district |-> BANQIAO],   \* 縣民大道
       [key |-> <<"li7ACB", "de5FB7", "lu">>, district |-> BANQIAO],   \* 立德路
       [key |-> <<"min", "de5FB7", "lu">>, district |-> BANQIAO],   \* 民德路
       [key |-> <<"min", "quan", "lu">>, district |-> BANQIAO],   \* 民權路
       [key |-> <<"min", "zu", "lu">>, district |-> BANQIAO],   \* 民族路
       [key |-> <<"cang", "hou", "jie">>, district |-> BANQIAO],   \* 倉後街
       [key |-> <<"chang", "an5B89", "jie">>, district |-> BANQIAO],   \* 長安街
       [key |-> <<"xiao6821", "qian", "jie">>, district |-> BANQIAO],   \* 校前街
       [key |-> <<"yang", "ming", "jie">>, district |-> BANQIAO],   \* 陽明街
       [key |-> <<"hai", "shan", "lu">>, district |-> BANQIAO],   \* 海山路
       [key |-> <<"nan", "hua83EF", "lu">>, district |-> BANQIAO],   \* 南華路
       [key |-> <<"xin4FE1", "yi7FA9", "lu">>, district |-> BANQIAO],   \* 信義路
       [key |-> <<"nan", "men", "jie">>, district |-> BANQIAO],   \* 南門街
       [key |-> <<"min", "sheng", "jie">>, district |-> BANQIAO],   \* 民生街
       [key |-> <<"san", "min", "lu">>, district |-> BANQIAO],   \* 三民路
       [key |-> <<"si56DB", "chuan", "lu", "yi4E00", "duan">>, district |-> BANQIAO],   \* 四川路一段
       [key |-> <<"si56DB", "chuan", "lu", "er", "duan">>, district |-> BANQIAO],   \* 四川路二段
       [key |-> <<"yi85DD", "wen", "jie">>, district |-> BANQIAO],   \* 藝文街
       [key |-> <<"lian", "cheng", "lu">>, district |-> ZHONGHE],   \* 連城路
       [key |-> <<"jing666F", "xin65B0", "jie">>, district |-> ZHONGHE],   \* 景新街
       [key |-> <<"he", "ping", "lu">>, district |-> ZHONGHE],   \* 和平路
       [key |-> <<"he", "ping", "jie">>, district |-> ZHONGHE],   \* 和平街
       [key |-> <<"zhong4E2D", "he", "lu">>, district |-> ZHONGHE],   \* 中和路
       [key |-> <<"yuan", "shan", "lu">>, district |-> ZHONGHE],   \* 員山路
       [key |-> <<"nan", "shan", "lu">>, district |-> ZHONGHE],   \* 南山路
       [key |-> <<"bao", "jian5065", "lu">>, district |-> ZHONGHE],   \* 保健路
       [key |-> <<"yan", "he", "lu">>, district |-> YONGHE],   \* 延和路
       [key |-> <<"yu88D5", "min", "lu">>, district |-> TUCHENG],   \* 裕民路
       [key |-> <<"jin", "cheng", "lu">>, district |-> TUCHENG],   \* 金城路
       [key |-> <<"zhong5FE0", "xiao5B5D", "lu">>, district |-> TUCHENG],   \* 忠孝路
       [key |-> <<"qiong", "lin", "lu">>, district |-> XINZHUANG],   \* 瓊林路
       [key |-> <<"dun", "hua5316", "bei", "lu">>, district |-> SONGSHAN],   \* 敦化北路
       [key |-> <<"chang", "an5B89", "dong", "lu">>, district |-> ZHONGSHAN],   \* 長安東路
       [key |-> <<"wan", "ning", "jie">>, district |-> WENSHAN]    \* 萬寧街
    >>
MANUAL_OVERRIDES ==
    <<
       [key |-> <<"tai", "bei", "ai", "li9E97", "si7D72", "hua82B1", "fang", "wang", "lu", "hua82B1", "dian">>, district |-> SONGSHAN],   \* 台北愛麗絲花坊網路花店
       [key |-> <<"jiu", "an6849", "hua82B1", "yi85DD", " ", "nan", "jing4EAC", "fu", "xing">>, district |-> ZHONGSHAN],   \* 玖桉花藝 南京復興
       [key |-> <<"yu6986", "guo", "gong", "zuo", "shi5BA4", " ", "(", " ", "yu6986", "guo", "jia", "shi98FE", " ", ")">>, district |-> WENSHAN],   \* 榆果工作室 ( 榆果傢飾 )
       [key |-> <<"hua82B1", "jian898B", "zhong937E", "qing", "hua82B1", "fang">>, district |-> TUCHENG],   \* 花見鍾情花坊
       [key |-> <<"M", "i", "l", "l", "i", "e", "mi", "li8389", "hua82B1", "yi85DD", "fang">>, district |-> TUCHENG],   \* Millie米莉花藝坊
       [key |-> <<"li9E97", "de7684", "hua82B1", "fang", "gong", "zuo", "shi5BA4">>, district |-> BANQIAO]    \* 麗的花坊工作室
    >>

(***************************************************************************)
(* Optional values, floats, Python outcomes                                *)
(***************************************************************************)
\* Python None, and a value that is not None
None == <<>>
Some(v) == <<v>>

\* how a call ends: it returns a value, or it raises
Return(v) == [kind |-> "return", value |-> v]
Raise(e) == [kind |-> "raise", exc |-> e]
Pending == [kind |-> "pending"]

\* the decimal num / 10^dec, with no trailing zero in the fraction: the value
\* float() gives a literal of at most 15 significant digits
RECURSIVE Decimal(_, _)
Decimal(num, dec) ==
    IF dec > 0 /\ num % 10 = 0 THEN Decimal(num \div 10, dec - 1)
    ELSE [num |-> num, dec |-> dec]

(***************************************************************************)
(* COORD_RE = re.compile(r"!3d([0-9.+-]+)!4d([0-9.+-]+)")                  *)
(***************************************************************************)
DIGITS == <<"0", "1", "2", "3", "4", "5", "6", "7", "8", "9">>
IsDigit(c) == \E k \in 1..Len(DIGITS) : DIGITS[k] = c
DigitValue(c) == (CHOOSE k \in 1..Len(DIGITS) : DIGITS[k] = c) - 1

\* the character class [0-9.+-]
InClass(c) == IsDigit(c) \/ c \in {".", "+", "-"}

\* s[i..] starts with lit
StartsAt(s, i, lit) ==
    /\ i >= 1
    /\ i + Len(lit) - 1 <= Len(s)
    /\ SubSeq(s, i, i + Len(lit) - 1) = lit

\* the length of the longest run of class characters of s from index i: what
\* the greedy + consumes (nothing shorter can be followed by "!" or end a match)
RECURSIVE RunLen(_, _)
RunLen(s, i) == IF i <= Len(s) /\ InClass(s[i]) THEN 1 + RunLen(s, i + 1) ELSE 0

MARK3 == <<"!", "3", "d">>
MARK4 == <<"!", "4", "d">>

\* the pattern matches s at index i
MatchesAt(s, i) ==
    LET n1 == RunLen(s, i + 3)
        j  == i + 3 + n1
    IN  /\ StartsAt(s, i, MARK3)
        /\ n1 >= 1
        /\ StartsAt(s, j, MARK4)
        /\ RunLen(s, j + 3) >= 1

\* the groups of the match at index i
GroupsAt(s, i) ==
    LET n1 == RunLen(s, i + 3)
        j  == i + 3 + n1
        n2 == RunLen(s, j + 3)
    IN  [g1 |-> SubSeq(s, i + 3, i + 2 + n1), g2 |-> SubSeq(s, j + 3, j + 2 + n2)]

\* COORD_RE.search(s): the leftmost match, or None
COORD_RE_search(s) ==
    IF \E i \in 1..Len(s) : MatchesAt(s, i)
    THEN LET i == CHOOSE k \in 1..Len(s) :
                      /\ MatchesAt(s, k)
                      /\ \A l \in 1..(k - 1) : ~MatchesAt(s, l)
         IN  Some(GroupsAt(s, i))
    ELSE None

(***************************************************************************)
(* float(str) on what the class lets through: an optional sign, then       *)
(* digits with at most one point and at least one digit; anything else is  *)
(* a ValueError                                                            *)
(***************************************************************************)
RECURSIVE DigitsValue(_)
DigitsValue(ds) ==
    IF ds = <<>> THEN 0
    ELSE 10 * DigitsValue(SubSeq(ds, 1, Len(ds) - 1)) + DigitValue(ds[Len(ds)])

float(tok) ==
    LET signed == tok # <<>> /\ Head(tok) \in {"+", "-"}
        body   == IF signed THEN Tail(tok) ELSE tok
        points == {i \in 1..Len(body) : body[i] = "."}
        digits == SelectSeq(body, IsDigit)
        wellformed ==
            /\ \A i \in 1..Len(body) : IsDigit(body[i]) \/ body[i] = "."
            /\ Cardinality(points) <= 1
            /\ digits # <<>>
        dec    == IF points = {} THEN 0
                  ELSE Len(body) - (CHOOSE i \in points : TRUE)
        sign   == IF signed /\ Head(tok) = "-" THEN -1 ELSE 1
    IN  IF wellformed THEN Return(Decimal(sign * DigitsValue(digits), dec))
        ELSE Raise("ValueError")

extract_coords(url) ==
    LET match == COORD_RE_search(url)
    IN  IF match = None THEN Return(<<None, None>>)
        ELSE LET lat == float(match[1].g1)
                 lon == float(match[1].g2)
             IN  IF lat.kind = "raise" THEN lat
                 ELSE IF lon.kind = "raise" THEN lon
                 ELSE Return(<<Some(lat.value), Some(lon.value)>>)

(***************************************************************************)
(* CENTROIDS, in definition order                                          *)
(***************************************************************************)
Centroid(name, lat, lon) == [name |-> name, lat |-> lat, lon |-> lon]

CENTROIDS ==
    << Centroid(BANQIAO,   Decimal(250112, 4), Decimal(1214637, 4)),
       Centroid(ZHONGHE,   Decimal(249990, 4), Decimal(1214870, 4)),
       Centroid(YONGHE,    Decimal(250090, 4), Decimal(1215150, 4)),
       Centroid(TUCHENG,   Decimal(249730, 4), Decimal(1214440, 4)),
       Centroid(XINZHUANG, Decimal(250370, 4), Decimal(1214510, 4)),
       Centroid(SONGSHAN,  Decimal(250520, 4), Decimal(1215560, 4)),
       Centroid(ZHONGSHAN, Decimal(250620, 4), Decimal(1215330, 4)),
       Centroid(WENSHAN,   Decimal(249950, 4), Decimal(1215540, 4)) >>

(***************************************************************************)
(* great_circle_distance: the haversine formula is evaluated in binary     *)
(* floating point, which TLC has not.  Its values at the coordinates the   *)
(* checked inputs hold are tabulated: one entry <<lat.num, lat.dec,        *)
(* lon.num, lon.dec, d>> per point, d[k] the distance the code computes    *)
(* from the point to CENTROIDS[k], in centimetres (the code's kilometres   *)
(* times 10^5, rounded).  At every tabulated point two entries of d are    *)
(* ordered, or equal, exactly as the code's two floats are.                *)
(***************************************************************************)
HAVERSINE_CM ==
    {
      <<250112, 4, 1214637, 4, <<0, 271172, 517521, 468876, 314127, 1034694, 898068, 927650>>>>,   \* (25.0112, 121.4637)
      <<24999, 3, 121487, 3, <<271172, 0, 303285, 520970, 556887, 911394, 839960, 676685>>>>,   \* (24.9990, 121.4870)
      <<25009, 3, 121515, 3, <<517521, 303285, 0, 819926, 716079, 631865, 616603, 422731>>>>,   \* (25.0090, 121.5150)
      <<24973, 3, 121444, 3, <<468876, 520970, 819926, 0, 715135, 1430161, 1335516, 1135357>>>>,   \* (24.9730, 121.4440)
      <<25037, 3, 121451, 3, <<314127, 556887, 716079, 715135, 0, 1070842, 871558, 1138100>>>>,   \* (25.0370, 121.4510)
      <<25052, 3, 121556, 3, <<1034694, 911394, 631865, 1430161, 1070842, 0, 256982, 634131>>>>,   \* (25.0520, 121.5560)
      <<25062, 3, 121533, 3, <<898068, 839960, 616603, 1335516, 871558, 256982, 0, 774468>>>>,   \* (25.0620, 121.5330)
      <<24995, 3, 121554, 3, <<927650, 676685, 422731, 1135357, 1138100, 634131, 774468, 0>>>>,   \* (24.9950, 121.5540)
      <<-250274632, 7, -585848393, 7, <<2000987231, 2000718620, 2000481945, 2000836949, 2001132348, 2000063811, 2000260993, 2000063811>>>>,   \* (-25.0274632, -58.5848393)
      <<-24846168, 6, -585669884, 7, <<1999647699, 1999724190, 1999518252, 2000094025, 1999378988, 1998905635, 1998905635, 1999452620>>>>,   \* (-24.8461680, -58.5669884)
      <<-249893535, 7, -583794627, 7, <<1999909568, 2000158602, 2000422897, 1999720053, 1999720053, 2000555733, 2000312673, 2000835162>>>>,   \* (-24.9893535, -58.3794627)
      <<-249821024, 7, -583000274, 7, <<1999105653, 1999354036, 1999620677, 1998926614, 1998926614, 1999862886, 1999606117, 2000030503>>>>,   \* (-24.9821024, -58.3000274)
      <<-249393913, 7, -585177441, 7, <<2000688590, 2000844138, 2000667233, 2000971650, 2000378529, 2000052581, 2000052581, 2000557168>>>>,   \* (-24.9393913, -58.5177441)
      <<-251196397, 7, -58534058, 6, <<2000302674, 2000150561, 2000182897, 1999863206, 2000577528, 2000330450, 2000577659, 1999863206>>>>,   \* (-25.1196397, -58.5340580)
      <<2496, 2, 12143, 2, <<662941, 719818, 1015293, 202020, 881969, 1630558, 1537412, 1309052>>>>,   \* (24.96, 121.43)
      <<2496, 2, 12146, 2, <<570538, 511979, 777279, 216585, 860992, 1407976, 1351850, 1024291>>>>,   \* (24.96, 121.46)
      <<2496, 2, 12149, 2, <<628003, 434713, 600298, 485709, 942102, 1220191, 1214139, 753395>>>>,   \* (24.96, 121.49)
      <<2496, 2, 12152, 2, <<803810, 546531, 547181, 779631, 1103004, 1085414, 1141728, 518564>>>>,   \* (24.96, 121.52)
      <<2496, 2, 12155, 2, <<1039560, 768951, 649083, 1078259, 1314721, 1024779, 1147052, 391265>>>>,   \* (24.96, 121.55)
      <<2496, 2, 12158, 2, <<1303115, 1032833, 852094, 1378538, 1556655, 1051194, 1229101, 469193>>>>,   \* (24.96, 121.58)
      <<2496, 2, 12161, 2, <<1580628, 1313419, 1101669, 1679583, 1816775, 1158721, 1374199, 685617>>>>,   \* (24.96, 121.61)
      <<2499, 2, 12143, 2, <<413412, 583106, 882275, 235891, 563831, 1444678, 1310708, 1250945>>>>,   \* (24.99, 121.43)
      <<2499, 2, 12146, 2, <<238664, 289929, 593174, 248475, 530426, 1187829, 1087174, 948990>>>>,   \* (24.99, 121.46)
      <<2499, 2, 12149, 2, <<354707, 104543, 328802, 500697, 653885, 957876, 910313, 647403>>>>,   \* (24.99, 121.49)
      <<2499, 2, 12152, 2, <<614394, 347309, 217196, 788998, 869797, 779012, 811247, 347143>>>>,   \* (24.99, 121.52)
      <<2499, 2, 12155, 2, <<901081, 642761, 411153, 1084989, 1126186, 692054, 818721, 68675>>>>,   \* (24.99, 121.55)
      <<2499, 2, 12158, 2, <<1195501, 942594, 688279, 1383744, 1401003, 730591, 930170, 267869>>>>,   \* (24.99, 121.58)
      <<2499, 2, 12161, 2, <<1493084, 1243643, 980418, 1683791, 1685258, 878254, 1114836, 567117>>>>,   \* (24.99, 121.61)
      <<2502, 2, 12143, 2, <<353392, 620035, 865192, 541327, 283725, 1318342, 1137908, 1280105>>>>,   \* (25.02, 121.43)
      <<2502, 2, 12146, 2, <<104714, 358542, 567544, 546926, 209655, 1030551, 871181, 987192>>>>,   \* (25.02, 121.46)
      <<2502, 2, 12149, 2, <<282498, 235458, 280037, 698599, 436043, 754152, 636997, 702292>>>>,   \* (25.02, 121.49)
      <<2502, 2, 12152, 2, <<575679, 406335, 132285, 927238, 720440, 508089, 485035, 441209>>>>,   \* (25.02, 121.52)
      <<2502, 2, 12155, 2, <<875082, 676428, 373286, 1189251, 1015213, 360922, 497431, 280894>>>>,   \* (25.02, 121.55)
      <<2502, 2, 12158, 2, <<1175964, 965806, 666295, 1466861, 1313394, 430203, 665058, 381999>>>>,   \* (25.02, 121.58)
      <<2502, 2, 12161, 2, <<1477422, 1261263, 965050, 1752674, 1613094, 650065, 905457, 629070>>>>,   \* (25.02, 121.61)
      <<2505, 2, 12143, 2, <<549017, 807113, 970186, 867745, 256226, 1269455, 1046073, 1391053>>>>,   \* (25.05, 121.43)
      <<2505, 2, 12146, 2, <<433044, 628970, 717575, 871249, 170635, 967311, 747344, 1127419>>>>,   \* (25.05, 121.46)
      <<2505, 2, 12149, 2, <<506310, 567899, 520854, 973622, 418639, 665223, 453230, 888739>>>>,   \* (25.05, 121.49)
      <<2505, 2, 12152, 2, <<712664, 657381, 458674, 1148729, 709985, 363327, 186956, 700985>>>>,   \* (25.05, 121.52)
      <<2505, 2, 12155, 2, <<970642, 851191, 576364, 1368938, 1007758, 64403, 217091, 612899>>>>,   \* (25.05, 121.55)
      <<2505, 2, 12158, 2, <<1248646, 1095278, 797952, 1615913, 1307575, 242785, 491879, 665319>>>>,   \* (25.05, 121.58)
      <<2505, 2, 12161, 2, <<1535840, 1362894, 1060179, 1879131, 1608293, 544423, 787021, 832103>>>>,   \* (25.05, 121.61)
      <<2508, 2, 12143, 2, <<836966, 1068166, 1164698, 1198118, 522840, 1306738, 1056532, 1566509>>>>,   \* (25.08, 121.43)
      <<2508, 2, 12146, 2, <<765929, 940857, 964510, 1200657, 486657, 1015827, 762001, 1337967>>>>,   \* (25.08, 121.46)
      <<2508, 2, 12149, 2, <<809600, 901186, 828682, 1276870, 618822, 734067, 477103, 1144140>>>>,   \* (25.08, 121.49)
      <<2508, 2, 12152, 2, <<952329, 960078, 791089, 1414901, 843612, 477929, 239174, 1005312>>>>,   \* (25.08, 121.52)
      <<2508, 2, 12155, 2, <<1158050, 1101841, 864642, 1598819, 1105918, 317157, 263395, 946016>>>>,   \* (25.08, 121.55)
      <<2508, 2, 12158, 2, <<1399250, 1299633, 1025701, 1814725, 1384579, 394172, 513952, 980782>>>>,   \* (25.08, 121.58)
      <<2508, 2, 12161, 2, <<1660540, 1531904, 1240644, 2052550, 1671436, 626710, 800944, 1100735>>>>,   \* (25.08, 121.61)
      <<2, 0, 1, 0, <<1294151644, 1294414663, 1294655424, 1294077180, 1293949852, 1294920939, 1294667590, 1295076104>>>>,   \* (2, 1)
      <<1, 0, 2, 0, <<1289810813, 1290071996, 1290317548, 1289724142, 1289615454, 1290598136, 1290346014, 1290736982>>>>,   \* (1, 2)
      <<0, 0, 0, 0, <<1314657301, 1314918600, 1315163868, 1314571356, 1314461548, 1315443535, 1315191331, 1315583386>>>>,   \* (0, 0)
      <<-25, 0, -585, 1, <<2001122258, 2001377198, 2001327394, 2000869385, 2000865999, 2000700789, 2000743286, 2000961641>>>>,   \* (-25, -58.5)
      <<90, 0, 0, 0, <<722642485, 722778143, 722666948, 723067249, 722355602, 722188810, 722077615, 722822621>>>>,   \* (90, 0)
      <<-90, 0, 0, 0, <<1278866195, 1278730537, 1278841732, 1278441430, 1279153078, 1279319870, 1279431065, 1278686059>>>>    \* (-90, 0)
    }

\* the points the table covers, as <<lat, lon>>
TABULATED == {<<Decimal(e[1], e[2]), Decimal(e[3], e[4])>> : e \in HAVERSINE_CM}

great_circle_distance(lat1, lon1, lat2, lon2) ==
    LET e == CHOOSE x \in HAVERSINE_CM :
                 /\ Decimal(x[1], x[2]) = lat1
                 /\ Decimal(x[3], x[4]) = lon1
        k == CHOOSE c \in 1..Len(CENTROIDS) :
                 CENTROIDS[c].lat = lat2 /\ CENTROIDS[c].lon = lon2
    IN  e[5][k]

(***************************************************************************)
(* dict and min                                                            *)
(***************************************************************************)
\* a dict is the sequence of its items, in insertion order
DictHas(d, key) == \E i \in 1..Len(d) : d[i].key = key
DictGet(d, key) == d[CHOOSE i \in 1..Len(d) : d[i].key = key].value

\* d[key] = value: a new key is appended, a present key keeps its place
DictSet(d, key, value) ==
    IF DictHas(d, key)
    THEN [i \in 1..Len(d) |-> IF d[i].key = key THEN [key |-> key, value |-> value] ELSE d[i]]
    ELSE Append(d, [key |-> key, value |-> value])

\* min(d, key=d.get) over the keys from index i on, best being the smallest
\* so far: a later key replaces it only when its value is smaller
\* MinFrom with <= for <: among equal values the last key wins
RECURSIVE MinFromLast(_, _, _)
MinFromLast(d, i, best) ==
    IF i > Len(d) THEN best
    ELSE MinFromLast(d, i + 1, IF d[i].value <= DictGet(d, best) THEN d[i].key ELSE best)

\* min(d, key=d.get) over the keys from index i on, best being the smallest
\* so far: a later key replaces it only when its value is smaller
RECURSIVE MinFrom(_, _, _)
MinFrom(d, i, best) ==
    IF i > Len(d) THEN best
    ELSE MinFrom(d, i + 1, IF d[i].value < DictGet(d, best) THEN d[i].key ELSE best)

min_by_value(d) == MinFrom(d, 2, d[1].key)

RECURSIVE DistancesFrom(_, _, _, _)
DistancesFrom(lat, lon, k, d) ==
    IF k > Len(CENTROIDS) THEN d
    ELSE DistancesFrom(lat, lon, k + 1,
             DictSet(d, CENTROIDS[k].name,
                     great_circle_distance(lat, lon, CENTROIDS[k].lat, CENTROIDS[k].lon)))

nearest_centroid(lat, lon) == min_by_value(DistancesFrom(lat, lon, 1, <<>>))

(***************************************************************************)
(* infer_district, normalize_row                                           *)
(***************************************************************************)
\* the index of the first occurrence of needle in text
FirstIndex(needle, text) ==
    CHOOSE i \in 1..(Len(text) - Len(needle) + 1) :
        /\ SubSeq(text, i, i + Len(needle) - 1) = needle
        /\ \A j \in 1..(i - 1) : SubSeq(text, j, j + Len(needle) - 1) # needle

\* FirstHit scanning the text instead of the table: the key found first in
\* the text wins (of two at one place, the first of the table)
FirstHitInText(table, text, i) ==
    LET hits == {k \in i..Len(table) : Occurs(table[k].key, text)}
        k == CHOOSE a \in hits : \A b \in hits :
                 \/ FirstIndex(table[a].key, text) < FirstIndex(table[b].key, text)
                 \/ /\ FirstIndex(table[a].key, text) = FirstIndex(table[b].key, text)
                    /\ a <= b
    IN  IF hits = {} THEN None ELSE Some(table[k].district)

\* FirstHit without the early return: the last key of the table found wins
FirstHitLast(table, text, i) ==
    LET hits == {k \in i..Len(table) : Occurs(table[k].key, text)}
    IN  IF hits = {} THEN None
        ELSE Some(table[CHOOSE a \in hits : \A b \in hits : a >= b].district)

\* for key, district in table.items(): if key in text: return district
RECURSIVE FirstHit(_, _, _)
FirstHit(table, text, i) ==
    IF i > Len(table) THEN None
    ELSE IF Occurs(table[i].key, text) THEN Some(table[i].district)
    ELSE FirstHit(table, text, i + 1)

\* infer_district with the coordinate stage ahead of the override stage
infer_district_coords_first(name, address, url, lat, lon) ==
    LET combined == name \o <<" ">> \o address \o <<" ">> \o url
        keyword  == FirstHit(DISTRICT_KEYWORDS, combined, 1)
        road     == FirstHit(ROAD_TO_DISTRICT, address, 1)
    IN  IF keyword # None THEN keyword[1]
        ELSE IF road # None THEN road[1]
        ELSE IF lat # None /\ lon # None THEN nearest_centroid(lat[1], lon[1])
        ELSE IF \E i \in 1..Len(MANUAL_OVERRIDES) : MANUAL_OVERRIDES[i].key = name
             THEN MANUAL_OVERRIDES[CHOOSE i \in 1..Len(MANUAL_OVERRIDES) :
                                       MANUAL_OVERRIDES[i].key = name].district
        ELSE UNRESOLVED

\* infer_district with the override keys looked for in the name, as the
\* keywords and roads are, instead of looked up
infer_district_override_substring(name, address, url, lat, lon) ==
    LET combined == name \o <<" ">> \o address \o <<" ">> \o url
        keyword  == FirstHit(DISTRICT_KEYWORDS, combined, 1)
        road     == FirstHit(ROAD_TO_DISTRICT, address, 1)
        override == FirstHit(MANUAL_OVERRIDES, name, 1)
    IN  IF keyword # None THEN keyword[1]
        ELSE IF road # None THEN road[1]
        ELSE IF override # None THEN override[1]
        ELSE IF lat # None /\ lon # None THEN nearest_centroid(lat[1], lon[1])
        ELSE UNRESOLVED

infer_district(name, address, url, lat, lon) ==
    LET combined == name \o <<" ">> \o address \o <<" ">> \o url
        keyword  == FirstHit(DISTRICT_KEYWORDS, combined, 1)
        road     == FirstHit(ROAD_TO_DISTRICT, address, 1)
    IN  IF keyword # None THEN keyword[1]
        ELSE IF road # None THEN road[1]
        ELSE IF \E i \in 1..Len(MANUAL_OVERRIDES) : MANUAL_OVERRIDES[i].key = name
             THEN MANUAL_OVERRIDES[CHOOSE i \in 1..Len(MANUAL_OVERRIDES) :
                                       MANUAL_OVERRIDES[i].key = name].district
        ELSE IF lat # None /\ lon # None THEN nearest_centroid(lat[1], lon[1])
        ELSE UNRESOLVED

\* the columns of the source CSV normalize_row reads, each with the key of the
\* tagged row it becomes.  The columns "評分" and "評分數" are written
\* "PingFen" and "PingFenShu".
COLUMNS ==
    << [column |-> "qBF1Pd", field |-> "name"],
       [column |-> "", field |-> "address"],
       [column |-> "hfpxzc href", field |-> "url"],
       [column |-> "PingFen", field |-> "rating"],
       [column |-> "PingFenShu", field |-> "rating_count"],
       [column |-> "UsdlK", field |-> "phone"],
       [column |-> "FQ2IWe src", field |-> "image"] >>

\* row.get(column, "")
RowGet(row, column) == IF column \in DOMAIN row THEN row[column] ELSE <<>>

normalize_row(row) ==
    LET coords  == extract_coords(RowGet(row, "hfpxzc href"))
        name    == strip(RowGet(row, "qBF1Pd"))
        address == strip(RowGet(row, ""))
        url     == strip(RowGet(row, "hfpxzc href"))
    IN  IF coords.kind = "raise" THEN coords
        ELSE Return([name         |-> name,
                     address      |-> address,
                     url          |-> url,
                     rating       |-> strip(RowGet(row, "PingFen")),
                     rating_count |-> strip(RowGet(row, "PingFenShu")),
                     phone        |-> strip(RowGet(row, "UsdlK")),
                     image        |-> strip(RowGet(row, "FQ2IWe src")),
                     district     |-> infer_district(name, address, url,
                                          coords.value[1], coords.value[2])])

(***************************************************************************)
(* Texts the checked rows are put together from                            *)
(***************************************************************************)
\* 板橋
BANQIAO_KW == <<"ban", "qiao">>
\* 中和
ZHONGHE_KW == <<"zhong4E2D", "he">>
\* 永和
YONGHE_KW == <<"yong", "he">>
\* 麗的花坊工作室
OVERRIDE_NAME == <<"li9E97", "de7684", "hua82B1", "fang", "gong", "zuo", "shi5BA4">>
\* 某某路1號
ADDRESS_UNKNOWN == <<"mou", "mou", "lu", "1", "hao">>
\* 新北市板橋區中山路一段100號
ADDRESS_BANQIAO == <<"xin65B0", "bei", "shi5E02", "ban", "qiao", "qu", "zhong4E2D", "shan", "lu", "yi4E00", "duan", "1", "0", "0", "hao">>
\* 忠孝路
ROAD_TUCHENG == <<"zhong5FE0", "xiao5B5D", "lu">>
\* 中正路
ROAD_BANQIAO == <<"zhong4E2D", "zheng", "lu">>
\* 民生路二段
ROAD_MINSHENG == <<"min", "sheng", "lu", "er", "duan">>
\* !3d24.9950!4d121.5540
URL_WENSHAN == <<"!", "3", "d", "2", "4", ".", "9", "9", "5", "0", "!", "4", "d", "1", "2", "1", ".", "5", "5", "4", "0">>
\* !3d-25.0274632!4d-58.5848393: as far from SONGSHAN as from WENSHAN, and farther from the rest
URL_TIE == <<"!", "3", "d", "-", "2", "5", ".", "0", "2", "7", "4", "6", "3", "2", "!", "4", "d", "-", "5", "8", ".", "5", "8", "4", "8", "3", "9", "3">>
\* !3d1.2.3!4d1
URL_BAD == <<"!", "3", "d", "1", ".", "2", ".", "3", "!", "4", "d", "1">>

(***************************************************************************)
(* Counter, most_common, str                                               *)
(***************************************************************************)
\* Counter(items): one count per distinct item, keyed in order of first
\* occurrence
RECURSIVE CounterFrom(_, _)
CounterFrom(items, d) ==
    IF items = <<>> THEN d
    ELSE CounterFrom(Tail(items),
             DictSet(d, Head(items),
                     (IF DictHas(d, Head(items)) THEN DictGet(d, Head(items)) ELSE 0) + 1))

Counter(items) == CounterFrom(items, <<>>)

\* one step of the stable sort by descending value: item goes after every
\* item placed so far whose value is at least its own
InsertByCount(sorted, item) ==
    LET p == Cardinality({i \in 1..Len(sorted) : sorted[i].value >= item.value})
    IN  SubSeq(sorted, 1, p) \o <<item>> \o SubSeq(sorted, p + 1, Len(sorted))

RECURSIVE SortedFrom(_, _)
SortedFrom(items, sorted) ==
    IF items = <<>> THEN sorted
    ELSE SortedFrom(Tail(items), InsertByCount(sorted, Head(items)))

\* most_common without the sort: the items as the Counter holds them
most_common_unsorted(d) == d

\* Counter.most_common(): sorted(items, key=itemgetter(1), reverse=True)
most_common(d) == SortedFrom(d, <<>>)

\* str(n) of an int n >= 0
RECURSIVE str(_)
str(n) == IF n < 10 THEN <<DIGITS[n + 1]>> ELSE str(n \div 10) \o <<DIGITS[(n % 10) + 1]>>

(***************************************************************************)
(* main.  fs holds the three files, each None (absent) or Some(content):   *)
(* SOURCE the rows csv.DictReader yields, OUTPUT the records written to    *)
(* the tagged CSV, COUNT_OUTPUT the members of the JSON object, in order.  *)
(* reader is the index of the next row to read (0: not opened).  ret is    *)
(* how main ended.                                                         *)
(***************************************************************************)
FIELDNAMES ==
    << <<"n", "a", "m", "e">>,
       <<"a", "d", "d", "r", "e", "s", "s">>,
       <<"u", "r", "l">>,
       <<"r", "a", "t", "i", "n", "g">>,
       <<"r", "a", "t", "i", "n", "g", "_", "c", "o", "u", "n", "t">>,
       <<"p", "h", "o", "n", "e">>,
       <<"i", "m", "a", "g", "e">>,
       <<"d", "i", "s", "t", "r", "i", "c", "t">> >>

\* DictWriter.writerow(row): the row's values in fieldnames order
CsvRecord(row) ==
    <<row.name, row.address, row.url, row.rating, row.rating_count,
      row.phone, row.image, row.district>>

\* "District counts:"
TITLE == <<"D", "i", "s", "t", "r", "i", "c", "t", " ", "c", "o", "u", "n", "t", "s", ":">>

Districts(rows) == [i \in 1..Len(rows) |-> rows[i].district]

SetFile(f, content) == [fs EXCEPT ![f] = Some(content)]

\* CheckSource with the output opened for writing ahead of the test
CheckSourceAfterOpen ==
    /\ pc = "main"
    /\ fs' = SetFile("OUTPUT", <<>>)
    /\ IF fs.SOURCE = None
       THEN /\ ret' = Raise("SystemExit")
            /\ pc' = "exit"
            /\ UNCHANGED reader
       ELSE /\ pc' = "read"
            /\ reader' = 1
            /\ UNCHANGED ret
    /\ UNCHANGED <<arg, tagged_rows, counts, stdout>>

\* if not SOURCE.exists(): raise SystemExit(...); else open it
CheckSource ==
    /\ pc = "main"
    /\ IF fs.SOURCE = None
       THEN /\ ret' = Raise("SystemExit")
            /\ pc' = "exit"
            /\ UNCHANGED reader
       ELSE /\ pc' = "read"
            /\ reader' = 1
            /\ UNCHANGED ret
    /\ UNCHANGED <<arg, fs, tagged_rows, counts, stdout>>

\* NormalizeNextRow writing each tagged row out as soon as it is made
NormalizeNextRowStreaming ==
    /\ pc = "read"
    /\ reader <= Len(fs.SOURCE[1])
    /\ LET r == normalize_row(fs.SOURCE[1][reader])
       IN  IF r.kind = "raise"
           THEN /\ ret' = r
                /\ pc' = "exit"
                /\ UNCHANGED <<reader, tagged_rows, fs>>
           ELSE /\ tagged_rows' = Append(tagged_rows, r.value)
                /\ reader' = reader + 1
                /\ fs' = SetFile("OUTPUT",
                             (IF reader = 1 THEN <<FIELDNAMES>> ELSE fs.OUTPUT[1])
                             \o <<CsvRecord(r.value)>>)
                /\ UNCHANGED <<pc, ret>>
    /\ UNCHANGED <<arg, counts, stdout>>

\* one turn of [normalize_row(row) for row in reader]; an exception of
\* normalize_row leaves main
NormalizeNextRow ==
    /\ pc = "read"
    /\ reader <= Len(fs.SOURCE[1])
    /\ LET r == normalize_row(fs.SOURCE[1][reader])
       IN  IF r.kind = "raise"
           THEN /\ ret' = r
                /\ pc' = "exit"
                /\ UNCHANGED <<reader, tagged_rows>>
           ELSE /\ tagged_rows' = Append(tagged_rows, r.value)
                /\ reader' = reader + 1
                /\ UNCHANGED <<pc, ret>>
    /\ UNCHANGED <<arg, fs, counts, stdout>>

\* the reader is exhausted: the list is complete, write_csv is called
ReaderExhausted ==
    /\ pc = "read"
    /\ reader > Len(fs.SOURCE[1])
    /\ pc' = "write_csv"
    /\ UNCHANGED <<arg, ret, fs, reader, tagged_rows, counts, stdout>>

\* OUTPUT.open("w"): the file is created, or cut to nothing
OpenOutput ==
    /\ pc = "write_csv"
    /\ fs' = SetFile("OUTPUT", <<>>)
    /\ pc' = "write_header"
    /\ UNCHANGED <<arg, ret, reader, tagged_rows, counts, stdout>>

WriteHeader ==
    /\ pc = "write_header"
    /\ fs' = SetFile("OUTPUT", Append(fs.OUTPUT[1], FIELDNAMES))
    /\ pc' = "write_rows"
    /\ UNCHANGED <<arg, ret, reader, tagged_rows, counts, stdout>>

\* for row in rows: writer.writerow(row)
WriteRow ==
    /\ pc = "write_rows"
    /\ Len(fs.OUTPUT[1]) - 1 < Len(tagged_rows)
    /\ fs' = SetFile("OUTPUT",
                 Append(fs.OUTPUT[1], CsvRecord(tagged_rows[Len(fs.OUTPUT[1])])))
    /\ UNCHANGED <<pc, arg, ret, reader, tagged_rows, counts, stdout>>

\* the rows are written: the file is closed, write_csv returns
CloseOutput ==
    /\ pc = "write_rows"
    /\ Len(fs.OUTPUT[1]) - 1 = Len(tagged_rows)
    /\ pc' = "count"
    /\ UNCHANGED <<arg, ret, fs, reader, tagged_rows, counts, stdout>>

\* the operating system refuses the open or a write: the OSError leaves
\* write_csv and main, which handle nothing
WriteFails ==
    /\ pc \in {"write_csv", "write_header", "write_rows"}
    /\ ret' = Raise("OSError")
    /\ pc' = "exit"
    /\ UNCHANGED <<arg, fs, reader, tagged_rows, counts, stdout>>

\* counts = Counter(row["district"] for row in tagged_rows)
CountDistricts ==
    /\ pc = "count"
    /\ counts' = Counter(Districts(tagged_rows))
    /\ pc' = "write_counts"
    /\ UNCHANGED <<arg, ret, fs, reader, tagged_rows, stdout>>

\* COUNT_OUTPUT.write_text(json.dumps(counts, ...))
WriteCounts ==
    /\ pc = "write_counts"
    /\ fs' = SetFile("COUNT_OUTPUT", counts)
    /\ pc' = "print"
    /\ UNCHANGED <<arg, ret, reader, tagged_rows, counts, stdout>>

PrintTitle ==
    /\ pc = "print"
    /\ stdout' = Append(stdout, TITLE)
    /\ pc' = "print_counts"
    /\ UNCHANGED <<arg, ret, fs, reader, tagged_rows, counts>>

\* for district, count in counts.most_common(): print(f"{district}: {count}")
PrintCount ==
    /\ pc = "print_counts"
    /\ Len(stdout) - 1 < Len(counts)
    /\ LET item == most_common(counts)[Len(stdout)]
       IN  stdout' = Append(stdout, item.key \o <<":", " ">> \o str(item.value))
    /\ UNCHANGED <<pc, arg, ret, fs, reader, tagged_rows, counts>>

MainReturns ==
    /\ pc = "print_counts"
    /\ Len(stdout) - 1 = Len(counts)
    /\ ret' = Return(None)
    /\ pc' = "exit"
    /\ UNCHANGED <<arg, fs, reader, tagged_rows, counts, stdout>>

\* a row of the source CSV with the given name, address and URL columns
Row(name, address, url) ==
    [c \in {COLUMNS[k].column : k \in 1..Len(COLUMNS)} |->
        CASE c = "qBF1Pd" -> name
          [] c = "" -> address
          [] c = "hfpxzc href" -> url
          [] OTHER -> <<>>]

\* the rows a checked source file holds
SOURCE_ROWS ==
    { Row(<<"x">>, ROAD_BANQIAO, <<>>),
      Row(YONGHE_KW, <<>>, <<"x">>),
      Row(<<"x">>, ADDRESS_UNKNOWN, URL_WENSHAN),
      Row(<<>>, <<>>, <<>>),
      Row(<<"x">>, <<>>, URL_BAD) }

\* what a file left by an earlier run holds
STALE_CSV == << <<<<"o", "l", "d">>>> >>
STALE_COUNTS == << [key |-> <<"o", "l", "d">>, value |-> 1] >>

Init ==
    /\ pc = "main"
    /\ arg = <<>>
    /\ ret = Pending
    /\ fs \in [SOURCE : {None} \cup {Some(rows) : rows \in SeqsUpTo(SOURCE_ROWS, MaxRows)},
               OUTPUT : {None, Some(STALE_CSV)},
               COUNT_OUTPUT : {None, Some(STALE_COUNTS)}]
    /\ reader = 0
    /\ tagged_rows = <<>>
    /\ counts = <<>>
    /\ stdout = <<>>

Next ==
    \/ CheckSource
    \/ NormalizeNextRow
    \/ ReaderExhausted
    \/ OpenOutput
    \/ WriteHeader
    \/ WriteRow
    \/ CloseOutput
    \/ WriteFails
    \/ CountDistricts
    \/ WriteCounts
    \/ PrintTitle
    \/ PrintCount
    \/ MainReturns

Spec == Init /\ [][Next]_vars

(***************************************************************************)
(* The pure functions alone: Init draws the argument, the action applies   *)
(* the function.  main's own variables stay as they are before main runs.  *)
(***************************************************************************)
MainIdle ==
    /\ fs = [SOURCE |-> None, OUTPUT |-> None, COUNT_OUTPUT |-> None]
    /\ reader = 0
    /\ tagged_rows = <<>>
    /\ counts = <<>>
    /\ stdout = <<>>

\* pieces a URL given to extract_coords alone is put together from
URL_PARTS ==
    { MARK3, MARK4, <<"1">>, <<".">>, <<"-">>, <<"+">>, <<"x">>,
      <<"1", ".", "2", ".", "3">>,
      <<"!", "3", "d", "2", "!", "4", "d", "1">> }

InitCoords ==
    /\ pc = "call"
    /\ arg \in {Join(ps) : ps \in SeqsUpTo(URL_PARTS, MaxUrlParts)}
    /\ ret = Pending
    /\ MainIdle

CallExtractCoords ==
    /\ pc = "call"
    /\ ret' = extract_coords(arg)
    /\ pc' = "returned"
    /\ UNCHANGED <<arg, mainvars>>

NextCoords == CallExtractCoords

SpecCoords == InitCoords /\ [][NextCoords]_vars

InitNearest ==
    /\ pc = "call"
    /\ arg \in TABULATED
    /\ ret = Pending
    /\ MainIdle

CallNearestCentroid ==
    /\ pc = "call"
    /\ ret' = Return(nearest_centroid(arg[1], arg[2]))
    /\ pc' = "returned"
    /\ UNCHANGED <<arg, mainvars>>

NextNearest == CallNearestCentroid

SpecNearest == InitNearest /\ [][NextNearest]_vars

\* pieces the three text columns of a classified row are put together from
ROW_PARTS ==
    { [column |-> "qBF1Pd", text |-> <<"x">>],
      [column |-> "qBF1Pd", text |-> <<" ">>],
      [column |-> "qBF1Pd", text |-> BANQIAO_KW],
      [column |-> "qBF1Pd", text |-> OVERRIDE_NAME],
      [column |-> "", text |-> ADDRESS_UNKNOWN],
      [column |-> "", text |-> ADDRESS_BANQIAO],
      [column |-> "", text |-> ROAD_TUCHENG],
      [column |-> "", text |-> ROAD_BANQIAO],
      [column |-> "", text |-> ROAD_MINSHENG],
      [column |-> "", text |-> YONGHE_KW],
      [column |-> "", text |-> ZHONGHE_KW],
      [column |-> "hfpxzc href", text |-> <<"x">>],
      [column |-> "hfpxzc href", text |-> ZHONGHE_KW],
      [column |-> "hfpxzc href", text |-> URL_WENSHAN],
      [column |-> "hfpxzc href", text |-> URL_TIE],
      [column |-> "hfpxzc href", text |-> URL_BAD] }

\* the text of one column: its pieces, in order
RECURSIVE ColumnText(_, _)
ColumnText(ps, column) ==
    IF ps = <<>> THEN <<>>
    ELSE (IF Head(ps).column = column THEN Head(ps).text ELSE <<>>)
         \o ColumnText(Tail(ps), column)

RowOf(ps) == [c \in {COLUMNS[k].column : k \in 1..Len(COLUMNS)} |-> ColumnText(ps, c)]

ROWS == {RowOf(ps) : ps \in SeqsUpTo(ROW_PARTS, MaxRowParts)}

InitClassify ==
    /\ pc = "call"
    /\ arg \in ROWS
    /\ ret = Pending
    /\ MainIdle

CallNormalizeRow ==
    /\ pc = "call"
    /\ ret' = normalize_row(arg)
    /\ pc' = "returned"
    /\ UNCHANGED <<arg, mainvars>>

NextClassify == CallNormalizeRow

SpecClassify == InitClassify /\ [][NextClassify]_vars

(***************************************************************************)
(* What the claims speak of                                                *)
(***************************************************************************)
\* the process exit status of the script: 0 when main returns, 1 when an
\* exception (SystemExit with a message included) leaves it
ExitStatus == IF ret.kind = "return" THEN 0 ELSE 1

Min(S) == CHOOSE x \in S : \A y \in S : x <= y

\* the texts of a source row as infer_district is given them
NameOf(row) == strip(RowGet(row, "qBF1Pd"))
AddressOf(row) == strip(RowGet(row, ""))
UrlOf(row) == strip(RowGet(row, "hfpxzc href"))
CombinedOf(row) == NameOf(row) \o <<" ">> \o AddressOf(row) \o <<" ">> \o UrlOf(row)

\* the keys of each rule table that match the row, as indices into the table
KeywordsIn(row) ==
    {k \in 1..Len(DISTRICT_KEYWORDS) : Occurs(DISTRICT_KEYWORDS[k].key, CombinedOf(row))}
RoadsIn(row) ==
    {k \in 1..Len(ROAD_TO_DISTRICT) : Occurs(ROAD_TO_DISTRICT[k].key, AddressOf(row))}
OverridesOf(row) ==
    {k \in 1..Len(MANUAL_OVERRIDES) : MANUAL_OVERRIDES[k].key = NameOf(row)}

\* the URL column holds the coordinate marker pattern
HasMarker(row) == COORD_RE_search(RowGet(row, "hfpxzc href")) # None

\* the district names of the Centroid Registry
KNOWN_DISTRICTS == {CENTROIDS[k].name : k \in 1..Len(CENTROIDS)}

\* normalize_row has returned a tagged row
Classified == pc = "returned" /\ ret.kind = "return"

\* 中山路一段
ROAD_ZHONGSHAN_1 == <<"zhong4E2D", "shan", "lu", "yi4E00", "duan">>

(***************************************************************************)
(* C1: classifying any row (normalize_row: extract_coords on the URL, then *)
(* infer_district) ends without raising and gives one non-empty district   *)
(* label, one of the eight registry names or the sentinel.  The code       *)
(* raises ValueError on a marker whose token float() rejects.              *)
(***************************************************************************)
C1_ClassificationTotal ==
    pc = "returned" =>
        /\ ret.kind = "return"
        /\ ret.value.district # <<>>
        /\ ret.value.district \in KNOWN_DISTRICTS \cup {UNRESOLVED}

(***************************************************************************)
(* C2: infer_district is a strict priority cascade: a keyword found in     *)
(* name + " " + address + " " + url decides; else a road found in the      *)
(* address; else an exact override match on the name; else the nearest     *)
(* centroid of the coordinates.                                            *)
(***************************************************************************)
C2_PriorityCascade ==
    Classified =>
        LET d == ret.value.district
            coords == extract_coords(RowGet(arg, "hfpxzc href")).value
        IN  IF KeywordsIn(arg) # {}
            THEN d \in {DISTRICT_KEYWORDS[k].district : k \in KeywordsIn(arg)}
            ELSE IF RoadsIn(arg) # {}
            THEN d \in {ROAD_TO_DISTRICT[k].district : k \in RoadsIn(arg)}
            ELSE IF OverridesOf(arg) # {}
            THEN d \in {MANUAL_OVERRIDES[k].district : k \in OverridesOf(arg)}
            ELSE coords[1] # None /\ coords[2] # None
                 => d = nearest_centroid(coords[1][1], coords[2][1])

\* a row whose name is an override key and whose coordinate is nearest to
\* another district's centroid has been given the override's district
C2_OverrideBeatsCoordinate ==
    /\ Classified
    /\ KeywordsIn(arg) = {}
    /\ RoadsIn(arg) = {}
    /\ OverridesOf(arg) # {}
    /\ HasMarker(arg)
    /\ LET coords == extract_coords(RowGet(arg, "hfpxzc href")).value
       IN  nearest_centroid(coords[1][1], coords[2][1]) # ret.value.district
    /\ ret.value.district = MANUAL_OVERRIDES[Min(OverridesOf(arg))].district

(***************************************************************************)
(* C3: extract_coords never fails: it returns the pair of the first marker *)
(* match when both tokens parse, and (None, None) both when the pattern is *)
(* absent and when a matched token does not parse.  The code raises        *)
(* ValueError in the last case.                                            *)
(***************************************************************************)
C3_ExtractCoordsNeverFails ==
    pc = "returned" =>
        LET m == COORD_RE_search(arg)
        IN  /\ ret.kind = "return"
            /\ m = None => ret.value = <<None, None>>
            /\ m # None =>
                 IF float(m[1].g1).kind = "return" /\ float(m[1].g2).kind = "return"
                 THEN ret.value = <<Some(float(m[1].g1).value), Some(float(m[1].g2).value)>>
                 ELSE ret.value = <<None, None>>

(***************************************************************************)
(* C4: when the input file does not exist, main aborts with a non-zero     *)
(* exit before reading or classifying a row, and neither output file is    *)
(* created or modified: the only step main takes is the abort.             *)
(***************************************************************************)
C4_MissingSourceAborts ==
    [][fs.SOURCE = None =>
          /\ pc' = "exit"
          /\ ret' = Raise("SystemExit")
          /\ ExitStatus' # 0
          /\ fs' = fs
          /\ reader' = 0
          /\ tagged_rows' = <<>>
          /\ counts' = <<>>
          /\ stdout' = <<>>]_vars

\* main has aborted on a missing source, beside an output file of an earlier run
C4_AbortedBesideOldOutput ==
    /\ pc = "exit"
    /\ fs.SOURCE = None
    /\ ret = Raise("SystemExit")
    /\ fs.OUTPUT = Some(STALE_CSV)
    /\ fs.COUNT_OUTPUT = None

(***************************************************************************)
(* C5: nearest_centroid returns the name of a centroid at minimal distance *)
(* from the coordinate, and of several at that distance the first of       *)
(* CENTROIDS.                                                              *)
(***************************************************************************)
DistanceTo(k) ==
    great_circle_distance(arg[1], arg[2], CENTROIDS[k].lat, CENTROIDS[k].lon)

C5_NearestFirstOfTies ==
    pc = "returned" =>
        \E k \in 1..Len(CENTROIDS) :
            /\ ret.value = CENTROIDS[k].name
            /\ \A j \in 1..Len(CENTROIDS) : DistanceTo(j) >= DistanceTo(k)
            /\ \A j \in 1..(k - 1) : DistanceTo(j) > DistanceTo(k)

\* two centroids are at the same, minimal distance, and the earlier is returned
C5_TieReturned ==
    /\ pc = "returned"
    /\ \E k, l \in 1..Len(CENTROIDS) :
           /\ k < l
           /\ DistanceTo(k) = DistanceTo(l)
           /\ \A j \in 1..Len(CENTROIDS) : DistanceTo(j) >= DistanceTo(k)
           /\ ret.value = CENTROIDS[k].name

(***************************************************************************)
(* C6: when the text searched for one table holds several of its keys, the *)
(* key that comes first in the table decides, wherever the keys stand in   *)
(* the text.                                                               *)
(***************************************************************************)
C6_FirstKeyOfTable ==
    Classified =>
        /\ KeywordsIn(arg) # {} =>
               ret.value.district = DISTRICT_KEYWORDS[Min(KeywordsIn(arg))].district
        /\ KeywordsIn(arg) = {} /\ RoadsIn(arg) # {} =>
               ret.value.district = ROAD_TO_DISTRICT[Min(RoadsIn(arg))].district

\* the address holds two road keys of different districts, the later of the
\* table standing first in the address, and the earlier's district is given
C6_LaterKeyFirstInText ==
    /\ Classified
    /\ KeywordsIn(arg) = {}
    /\ \E j, k \in RoadsIn(arg) :
           /\ j < k
           /\ ROAD_TO_DISTRICT[j].district # ROAD_TO_DISTRICT[k].district
           /\ FirstIndex(ROAD_TO_DISTRICT[k].key, AddressOf(arg))
                  < FirstIndex(ROAD_TO_DISTRICT[j].key, AddressOf(arg))
           /\ j = Min(RoadsIn(arg))
           /\ ret.value.district = ROAD_TO_DISTRICT[j].district

(***************************************************************************)
(* C7: the counts map each label to the number of tagged rows carrying it  *)
(* (no label with none, the counts summing to the number of input rows),   *)
(* and the summary lists the labels by descending count, equal counts in   *)
(* order of first occurrence.                                              *)
(***************************************************************************)
LabelCount(l) == Cardinality({i \in 1..Len(tagged_rows) : tagged_rows[i].district = l})
FirstRow(l) == Min({i \in 1..Len(tagged_rows) : tagged_rows[i].district = l})
Labels == {tagged_rows[i].district : i \in 1..Len(tagged_rows)}

\* label a is listed before label b
ListedBefore(a, b) ==
    \/ LabelCount(a) > LabelCount(b)
    \/ LabelCount(a) = LabelCount(b) /\ FirstRow(a) < FirstRow(b)

RECURSIVE SumValues(_)
SumValues(d) == IF d = <<>> THEN 0 ELSE Head(d).value + SumValues(Tail(d))

C7_CountsAndSummary ==
    pc = "exit" /\ ret.kind = "return" =>
        /\ {counts[i].key : i \in 1..Len(counts)} = Labels
        /\ Len(counts) = Cardinality(Labels)
        /\ \A i \in 1..Len(counts) : counts[i].value = LabelCount(counts[i].key)
        /\ SumValues(counts) = Len(fs.SOURCE[1])
        /\ Len(stdout) = 1 + Cardinality(Labels)
        /\ \A l \in Labels :
               stdout[2 + Cardinality({a \in Labels : ListedBefore(a, l)})]
                   = l \o <<":", " ">> \o str(LabelCount(l))

\* districts [A, A, B] have been counted and listed: A: 2, then B: 1
C7_TwoThenOne ==
    /\ pc = "exit"
    /\ ret.kind = "return"
    /\ Len(tagged_rows) = 3
    /\ tagged_rows[1].district = tagged_rows[2].district
    /\ tagged_rows[3].district # tagged_rows[1].district
    /\ counts = << [key |-> tagged_rows[1].district, value |-> 2],
                   [key |-> tagged_rows[3].district, value |-> 1] >>
    /\ stdout[2] = tagged_rows[1].district \o <<":", " ", "2">>
    /\ stdout[3] = tagged_rows[3].district \o <<":", " ", "1">>

(***************************************************************************)
(* C8: a row with address "某某路1號", a name that is no override key and  *)
(* a URL without a coordinate is labelled with the sentinel, and           *)
(* classifying it does not raise.  As stated, for every such name and URL, *)
(* it fails: a keyword in the name or the URL decides first.               *)
(***************************************************************************)
C8_UnknownAddressUnresolved ==
    ( /\ pc = "returned"
      /\ AddressOf(arg) = ADDRESS_UNKNOWN
      /\ OverridesOf(arg) = {}
      /\ ~HasMarker(arg) )
    => /\ ret.kind = "return"
       /\ ret.value.district = UNRESOLVED

\* C8 as amended: ... and whose name and URL hold no keyword-table key
C8_UnknownAddressNoKeywordUnresolved ==
    ( /\ pc = "returned"
      /\ AddressOf(arg) = ADDRESS_UNKNOWN
      /\ OverridesOf(arg) = {}
      /\ ~HasMarker(arg)
      /\ KeywordsIn(arg) = {} )
    => /\ ret.kind = "return"
       /\ ret.value.district = UNRESOLVED

\* such a row, with a name and a URL, has been labelled with the sentinel
C8_UnresolvedReturned ==
    /\ Classified
    /\ AddressOf(arg) = ADDRESS_UNKNOWN
    /\ OverridesOf(arg) = {}
    /\ ~HasMarker(arg)
    /\ KeywordsIn(arg) = {}
    /\ NameOf(arg) # <<>>
    /\ UrlOf(arg) # <<>>
    /\ ret.value.district = UNRESOLVED

(***************************************************************************)
(* C9: a row with address "新北市板橋區中山路一段100號" and no coordinate   *)
(* resolves to "新北市板橋區", with no keyword-table key matching its      *)
(* combined text, the road key "中山路一段" deciding.  As stated it fails:  *)
(* the address holds the keyword "板橋".                                   *)
(***************************************************************************)
C9_DecidedByRoad ==
    ( /\ pc = "returned"
      /\ AddressOf(arg) = ADDRESS_BANQIAO
      /\ ~HasMarker(arg) )
    => /\ ret.kind = "return"
       /\ ret.value.district = BANQIAO
       /\ KeywordsIn(arg) = {}
       /\ \E k \in RoadsIn(arg) : ROAD_TO_DISTRICT[k].key = ROAD_ZHONGSHAN_1

\* C9 as amended: the row resolves to "新北市板橋區"; the keyword "板橋" of
\* its address matches the combined text and, first of the keyword table,
\* decides; the road key "中山路一段" is in the address too and is not
\* consulted
C9_DecidedByKeyword ==
    ( /\ pc = "returned"
      /\ AddressOf(arg) = ADDRESS_BANQIAO
      /\ ~HasMarker(arg) )
    => /\ ret.kind = "return"
       /\ ret.value.district = BANQIAO
       /\ KeywordsIn(arg) # {}
       /\ DISTRICT_KEYWORDS[Min(KeywordsIn(arg))].key = BANQIAO_KW
       /\ Occurs(BANQIAO_KW, AddressOf(arg))
       /\ \E k \in RoadsIn(arg) : ROAD_TO_DISTRICT[k].key = ROAD_ZHONGSHAN_1

\* such a row, whose URL holds another keyword, has been given "新北市板橋區"
C9_BanqiaoReturned ==
    /\ Classified
    /\ AddressOf(arg) = ADDRESS_BANQIAO
    /\ ~HasMarker(arg)
    /\ Cardinality(KeywordsIn(arg)) > 1
    /\ ret.value.district = BANQIAO

(***************************************************************************)
(* C10: output follows classification, in a fixed order.  A step changes   *)
(* the tagged CSV only when every row of the input has been classified,    *)
(* and changes the counts file only when the tagged CSV holds the header   *)
(* and every tagged row; and when the classification of a row has failed,  *)
(* both files are as an earlier run left them.                             *)
(***************************************************************************)
FullCsv == <<FIELDNAMES>> \o [i \in 1..Len(tagged_rows) |-> CsvRecord(tagged_rows[i])]

C10_ClassifyThenCsvThenCounts ==
    /\ [][ /\ fs'.OUTPUT # fs.OUTPUT =>
                 /\ fs.SOURCE # None
                 /\ Len(tagged_rows) = Len(fs.SOURCE[1])
                 /\ ret = Pending
           /\ fs'.COUNT_OUTPUT # fs.COUNT_OUTPUT =>
                 /\ fs.SOURCE # None
                 /\ Len(tagged_rows) = Len(fs.SOURCE[1])
                 /\ fs.OUTPUT = Some(FullCsv) ]_vars
    /\ [](ret = Raise("ValueError") =>
              /\ fs.OUTPUT \in {None, Some(STALE_CSV)}
              /\ fs.COUNT_OUTPUT \in {None, Some(STALE_COUNTS)})

\* the counts file of this run exists, after the tagged CSV of two rows or more
C10_BothWritten ==
    /\ pc = "print"
    /\ Len(tagged_rows) >= 2
    /\ fs.OUTPUT = Some(FullCsv)
    /\ fs.COUNT_OUTPUT = Some(counts)

====
